---- MODULE Spec2Model ----
(***************************************************************************)
(* A model of script.py, the card price tracker: one run reads the catalog *)
(* (urls.txt) and the price store (data.json), fetches a price per catalog *)
(* reference, writes the store and the run time, builds one embed per      *)
(* owner and posts the report to the webhook.  The scheduler invokes the   *)
(* script again and again; the files on disk are the only state that       *)
(* survives a run.                                                         *)
(*                                                                         *)
(* Money is counted in mills (1/1000 of a dollar), so that round(x, 2) is  *)
(* a real rounding.  Dates are day numbers of a calendar window in which   *)
(* day 1 is Sunday 30 December, day 2 Monday 31 December and day 3 Tuesday *)
(* 1 January: the ISO week, the month and the year all start inside it.    *)
(* An optional value (a Python value that may be None) is <<>> for None    *)
(* and <<v>> for the value v.                                              *)
(***************************************************************************)
EXTENDS Integers, Sequences, FiniteSets, TLC

VARIABLES
    dataFile,     \* data.json: [kind, data]
    lastRunFile,  \* last_run.txt: "absent", or "written" by an earlier run
    catalog,      \* urls.txt: the sequence of its non-blank lines
    today,        \* the calendar day the clock shows
    pc,           \* position of the run
    webhook,      \* DISCORD_WEBHOOK_URL of the run, once the post has used it
    old_data,     \* the loaded store
    new_data,     \* the store being built
    idx,          \* position of the fetch loop in the catalog's references
    price,        \* the fetch loop's local `price`
    fetches,      \* number of pricing API requests per item id in this run
    embeds,       \* the report, one embed per owner
    abortAt,      \* where an unhandled exception ended the run
    logged,       \* the delivery failure message was printed
    last_run_time_str, \* the footer's last run time, read at start-up
    response,     \* get_price: the pricing API's response to the call
    ret_price,    \* get_price: the returned value
    history,      \* calculate_performance: argument
    target_date,  \* calculate_performance: argument
    ret_perf      \* calculate_performance: the returned value

vars == <<dataFile, lastRunFile, catalog, today, pc, webhook, old_data,
          new_data, idx, price, fetches, embeds, abortAt, logged,
          last_run_time_str, response, ret_price, history, target_date,
          ret_perf>>

runVars == <<dataFile, lastRunFile, catalog, today, webhook, old_data,
             new_data, idx, price, fetches, embeds, abortAt, logged,
             last_run_time_str>>

callVars == <<response, ret_price, history, target_date, ret_perf>>

-----------------------------------------------------------------------------
(* Bounds *)

MaxDay == 2

MaxLines == 2

MaxPayload == 2

MaxLen == 3

MaxDate == 3

-----------------------------------------------------------------------------
(* Values *)

None == <<>>

Some(v) == <<v>>

Val(o) == o[1]

Owners == {"Ben", "Amy"}

Ids == {"509980", "123"}

Malformed == [user |-> "", pid |-> ""]

CatalogLines == [user : Owners, pid : Ids] \cup {Malformed}

MarketPrices == {0, 4250, 8004}

PrintingTypes == {"Foil", "Normal", "Holofoil"}

Entries == [printingType : PrintingTypes,
            marketPrice : {None} \cup {Some(p) : p \in MarketPrices}]

SeqsUpTo(S, n) == UNION {[1..k -> S] : k \in 0..n}

Payloads == SeqsUpTo(Entries, MaxPayload)

HttpError == [status |-> "error", body |-> <<>>]

Responses == {[status |-> "ok", body |-> p] : p \in Payloads} \cup {HttpError}

Absent == [tag |-> "absent", price |-> 0, history |-> <<>>]

Empty == [pid \in Ids |-> Absent]

Has(data, pid) == data[pid].tag # "absent"

LegacyValues == {[tag |-> "int", price |-> 4000, history |-> <<>>],
                 [tag |-> "float", price |-> 4500, history |-> <<>>]}

LegacyStores == [Ids -> LegacyValues \cup {Absent}]

InitialFiles == {[kind |-> "absent", data |-> Empty],
                 [kind |-> "corrupt", data |-> Empty]}
                \cup {[kind |-> "json", data |-> d] : d \in LegacyStores}

-----------------------------------------------------------------------------
(* Catalog *)

setdefault_append(uc, user, pid) ==
    IF \E i \in 1..Len(uc) : uc[i].user = user
    THEN [i \in 1..Len(uc) |->
            IF uc[i].user = user
            THEN [uc[i] EXCEPT !.ids = Append(@, pid)]
            ELSE uc[i]]
    ELSE Append(uc, [user |-> user, ids |-> <<pid>>])

RECURSIVE read_urls(_, _)
read_urls(lines, uc) ==
    IF lines = <<>> THEN uc
    ELSE read_urls(Tail(lines),
                   IF Head(lines) = Malformed THEN uc
                   ELSE setdefault_append(uc, Head(lines).user, Head(lines).pid))

user_cards == read_urls(catalog, <<>>)

RECURSIVE Flatten(_)
Flatten(uc) == IF uc = <<>> THEN <<>> ELSE Head(uc).ids \o Flatten(Tail(uc))

Refs == Flatten(user_cards)

-----------------------------------------------------------------------------
(* Store *)

\* json.load yields an int for 4 and a float for 4.5; only a float is
\* upgraded.  A value tagged "int" is a bare number on which .get raises.
upgrade(value) ==
    IF value.tag = "float"
    THEN [tag |-> "rec", price |-> value.price, history |-> <<>>]
    ELSE value

json_load(file) == [pid \in Ids |-> upgrade(file.data[pid])]

json_dump(data) == [kind |-> "json", data |-> data]

-----------------------------------------------------------------------------
(* Price source *)

\* Python truth of a market price: None and 0 are both false.
Truthy(o) == o # None /\ Val(o) # 0

RECURSIVE first_price(_, _)
first_price(entries, type) ==
    IF entries = <<>> THEN None
    ELSE IF Head(entries).printingType = type /\ Truthy(Head(entries).marketPrice)
         THEN Head(entries).marketPrice
         ELSE first_price(Tail(entries), type)

get_price(resp) ==
    IF resp.status # "ok" THEN None
    ELSE IF first_price(resp.body, "Foil") # None
         THEN first_price(resp.body, "Foil")
         ELSE first_price(resp.body, "Normal")

\* What get_price can return over all responses of the pricing API.
FetchedPrices == {get_price(resp) : resp \in Responses}

-----------------------------------------------------------------------------
(* History *)

HasDate(h, d) == \E i \in 1..Len(h) : h[i].date = d

\* The list returned for a stored item is the list held by old_data (the
\* append is in place, see FetchStep); for a new item it is a fresh list.
update_price_history(pid, market_price) ==
    LET h == IF Has(old_data, pid) THEN old_data[pid].history ELSE <<>>
    IN  IF HasDate(h, today) THEN h
        ELSE Append(h, [date |-> today, market |-> market_price])

-----------------------------------------------------------------------------
(* Performance *)

\* round(x, 2) on an amount in mills: to the nearest 10, ties to even.
Round2(x) ==
    LET q == x \div 10
        r == x % 10
    IN  IF r < 5 THEN 10 * q
        ELSE IF r > 5 THEN 10 * (q + 1)
        ELSE IF q % 2 = 0 THEN 10 * q ELSE 10 * (q + 1)

RECURSIVE baseline_scan(_, _)
baseline_scan(h, t) ==
    IF h = <<>> THEN None
    ELSE IF h[Len(h)].date <= t THEN Some(h[Len(h)].market)
         ELSE baseline_scan(SubSeq(h, 1, Len(h) - 1), t)

calculate_performance_first(h, t) ==
    LET baseline == baseline_scan(h, t)
        latest == IF h # <<>> THEN Some(h[1].market) ELSE None
    IN  IF baseline = None \/ latest = None THEN None
        ELSE Some(Round2(Val(latest) - Val(baseline)))

calculate_performance(h, t) ==
    LET baseline == baseline_scan(h, t)
        latest == IF h # <<>> THEN Some(h[Len(h)].market) ELSE None
    IN  IF baseline = None \/ latest = None THEN None
        ELSE Some(Round2(Val(latest) - Val(baseline)))

-----------------------------------------------------------------------------
(* Report *)

weekday(d) == (d + 5) % 7

start_of_week(d) == d - weekday(d)

start_of_month(d) == IF d >= 3 THEN 3 ELSE 0 - 28

start_of_year(d) == IF d >= 3 THEN 3 ELSE 0 - 362

SortKey(pid) == IF Has(new_data, pid) THEN new_data[pid].price ELSE 0

RECURSIVE InsertDesc(_, _)
InsertDesc(s, pid) ==
    IF s = <<>> THEN <<pid>>
    ELSE IF SortKey(Head(s)) >= SortKey(pid)
         THEN <<Head(s)>> \o InsertDesc(Tail(s), pid)
         ELSE <<pid>> \o s

RECURSIVE sorted_ids(_)
sorted_ids(ids) ==
    IF ids = <<>> THEN <<>>
    ELSE InsertDesc(sorted_ids(SubSeq(ids, 1, Len(ids) - 1)), ids[Len(ids)])

RECURSIVE total_value(_)
total_value(ids) ==
    IF ids = <<>> THEN 0
    ELSE (IF Has(new_data, Head(ids)) THEN new_data[Head(ids)].price ELSE 0)
         + total_value(Tail(ids))

RECURSIVE old_total_value(_)
old_total_value(ids) ==
    IF ids = <<>> THEN 0
    ELSE (IF Has(old_data, Head(ids)) THEN old_data[Head(ids)].price ELSE 0)
         + old_total_value(Tail(ids))

RECURSIVE item_baseline(_, _)
item_baseline(h, t) ==
    IF h = <<>> THEN None
    ELSE IF h[Len(h)].date <= t THEN Some(h[Len(h)].market)
         ELSE item_baseline(SubSeq(h, 1, Len(h) - 1), t)

RECURSIVE get_total_baseline(_, _)
get_total_baseline(t, ids) ==
    IF ids = <<>> THEN 0
    ELSE (LET baseline == item_baseline(new_data[Head(ids)].history, t)
          IN  IF baseline # None THEN Val(baseline) ELSE 0)
         + get_total_baseline(t, Tail(ids))

SetMin(S) == CHOOSE m \in S : \A x \in S : m <= x

earliest_date(ids) ==
    SetMin(UNION {IF Has(new_data, ids[i])
                  THEN {new_data[ids[i]].history[j].date :
                          j \in 1..Len(new_data[ids[i]].history)}
                  ELSE {today} : i \in 1..Len(ids)})

field_line(pid) ==
    IF ~Has(new_data, pid) THEN "no price"
    ELSE IF ~Has(old_data, pid) THEN "new"
    ELSE IF new_data[pid].price > old_data[pid].price THEN "up"
    ELSE IF new_data[pid].price < old_data[pid].price THEN "down"
    ELSE "same"

embed(i) ==
    LET ids == sorted_ids(user_cards[i].ids)
        total == total_value(ids)
    IN  [title |-> user_cards[i].user,
         ids |-> ids,
         total_value |-> total,
         old_total_value |-> old_total_value(ids),
         total_wtd |-> total - get_total_baseline(start_of_week(today), ids),
         total_mtd |-> total - get_total_baseline(start_of_month(today), ids),
         total_ytd |-> total - get_total_baseline(start_of_year(today), ids),
         total_all |-> total - get_total_baseline(earliest_date(ids), ids),
         lines |-> [j \in 1..Len(ids) |-> field_line(ids[j])],
         footer |-> IF i = Len(user_cards) THEN last_run_time_str ELSE "none"]

-----------------------------------------------------------------------------
(* The run *)

\* Owner names and item ids are opaque strings, so the catalogs are taken up
\* to renaming: the first record line, if any, names Ben and 509980.  The
\* stores are not restricted.
FirstRecord(lines) ==
    IF \A i \in 1..Len(lines) : lines[i] = Malformed THEN Malformed
    ELSE lines[CHOOSE i \in 1..Len(lines) :
                 /\ lines[i] # Malformed
                 /\ \A j \in 1..(i - 1) : lines[j] = Malformed]

Catalogs ==
    {c \in SeqsUpTo(CatalogLines, MaxLines) \ {<<>>} :
        FirstRecord(c) \in {Malformed, [user |-> "Ben", pid |-> "509980"]}}

NoCall ==
    /\ response = HttpError
    /\ ret_price = None
    /\ history = <<>>
    /\ target_date = 0
    /\ ret_perf = None

Init ==
    /\ dataFile \in InitialFiles
    /\ lastRunFile = "absent"
    /\ catalog \in Catalogs
    /\ today = 1
    /\ pc = "idle"
    /\ webhook = "unset"
    /\ old_data = Empty
    /\ new_data = Empty
    /\ idx = 1
    /\ price = None
    /\ fetches = [pid \in Ids |-> 0]
    /\ embeds = <<>>
    /\ abortAt = "none"
    /\ logged = FALSE
    /\ last_run_time_str = "Unknown"
    /\ NoCall

Raise(where) ==
    /\ pc' = "aborted"
    /\ abortAt' = where

Tick ==
    /\ pc = "idle"
    /\ today < MaxDay
    /\ today' = today + 1
    /\ UNCHANGED <<dataFile, lastRunFile, catalog, pc, webhook, old_data,
                   new_data, idx, price, fetches, embeds, abortAt, logged,
                   last_run_time_str>>
    /\ UNCHANGED callVars

StartRun ==
    /\ pc = "idle"
    /\ last_run_time_str' = IF lastRunFile = "absent" THEN "Unknown" ELSE "ago"
    /\ pc' = "load"
    /\ UNCHANGED <<dataFile, lastRunFile, catalog, today, webhook, old_data,
                   new_data, idx, price, fetches, embeds, abortAt, logged>>
    /\ UNCHANGED callVars

LoadData ==
    /\ pc = "load"
    /\ IF dataFile.kind = "absent"
       THEN /\ old_data' = Empty
            /\ pc' = IF Refs = <<>> THEN "save" ELSE "fetch"
            /\ UNCHANGED abortAt
       ELSE IF dataFile.kind = "corrupt"
       THEN /\ Raise("load")
            /\ UNCHANGED old_data
       ELSE /\ old_data' = json_load(dataFile)
            /\ pc' = IF Refs = <<>> THEN "save" ELSE "fetch"
            /\ UNCHANGED abortAt
    /\ new_data' = Empty
    /\ UNCHANGED <<dataFile, lastRunFile, catalog, today, webhook, idx, price,
                   fetches, embeds, logged, last_run_time_str>>
    /\ UNCHANGED callVars

FetchStep ==
    /\ pc = "fetch"
    /\ \E p \in FetchedPrices :
         LET pid == Refs[idx]
         IN  /\ fetches' = [fetches EXCEPT ![pid] = @ + 1]
             /\ price' = p
             /\ IF p = None
                THEN /\ idx' = idx + 1
                     /\ pc' = IF idx = Len(Refs) THEN "save" ELSE "fetch"
                     /\ UNCHANGED <<old_data, new_data, abortAt>>
                ELSE IF old_data[pid].tag = "int"
                THEN /\ Raise("history")
                     /\ UNCHANGED <<old_data, new_data, idx>>
                ELSE /\ new_data' =
                          [new_data EXCEPT ![pid] =
                             [tag |-> "rec", price |-> Val(p),
                              history |-> update_price_history(pid, Val(p))]]
                     /\ old_data' =
                          IF Has(old_data, pid)
                          THEN [old_data EXCEPT ![pid].history =
                                   update_price_history(pid, Val(p))]
                          ELSE old_data
                     /\ idx' = idx + 1
                     /\ pc' = IF idx = Len(Refs) THEN "save" ELSE "fetch"
                     /\ UNCHANGED abortAt
    /\ UNCHANGED <<dataFile, lastRunFile, catalog, today, webhook, embeds,
                   logged, last_run_time_str>>
    /\ UNCHANGED callVars

Save ==
    /\ pc = "save"
    /\ dataFile' = json_dump(new_data)
    /\ lastRunFile' = "written"
    /\ pc' = "report"
    /\ UNCHANGED <<catalog, today, webhook, old_data, new_data, idx, price,
                   fetches, embeds, abortAt, logged, last_run_time_str>>
    /\ UNCHANGED callVars

BuildReport ==
    /\ pc = "report"
    /\ IF \E i \in 1..Len(Refs) : old_data[Refs[i]].tag = "int"
       THEN /\ Raise("report")
            /\ UNCHANGED embeds
       ELSE /\ embeds' = [i \in 1..Len(user_cards) |-> embed(i)]
            /\ pc' = "deliver"
            /\ UNCHANGED abortAt
    /\ UNCHANGED <<dataFile, lastRunFile, catalog, today, webhook, old_data,
                   new_data, idx, price, fetches, logged, last_run_time_str>>
    /\ UNCHANGED callVars

DeliverRollback ==
    /\ pc = "deliver"
    /\ \E url \in {"unset", "set"} :
         /\ webhook' = url
         /\ IF url = "unset"
            THEN /\ Raise("deliver")
                 /\ dataFile' = json_dump(old_data)
                 /\ UNCHANGED logged
            ELSE \E outcome \in {"204", "status", "transport"} :
                   IF outcome = "transport"
                   THEN /\ Raise("deliver")
                        /\ dataFile' = json_dump(old_data)
                        /\ UNCHANGED logged
                   ELSE /\ logged' = (outcome # "204")
                        /\ pc' = "done"
                        /\ UNCHANGED <<abortAt, dataFile>>
    /\ UNCHANGED <<lastRunFile, catalog, today, old_data, new_data,
                   idx, price, fetches, embeds, last_run_time_str>>
    /\ UNCHANGED callVars

\* The webhook URL is read from the environment at start-up (line 11) and
\* first used by the post (line 231); it is drawn here, where it is used.
\* requests.post raises on a missing URL and on a transport failure.
Deliver ==
    /\ pc = "deliver"
    /\ \E url \in {"unset", "set"} :
         /\ webhook' = url
         /\ IF url = "unset"
            THEN /\ Raise("deliver")
                 /\ UNCHANGED logged
            ELSE \E outcome \in {"204", "status", "transport"} :
                   IF outcome = "transport"
                   THEN /\ Raise("deliver")
                        /\ UNCHANGED logged
                   ELSE /\ logged' = (outcome # "204")
                        /\ pc' = "done"
                        /\ UNCHANGED abortAt
    /\ UNCHANGED <<dataFile, lastRunFile, catalog, today, old_data, new_data,
                   idx, price, fetches, embeds, last_run_time_str>>
    /\ UNCHANGED callVars

\* The process ends; nothing but the files survives it.
Exit ==
    /\ pc \in {"done", "aborted"}
    /\ pc' = "idle"
    /\ old_data' = Empty
    /\ new_data' = Empty
    /\ idx' = 1
    /\ price' = None
    /\ fetches' = [pid \in Ids |-> 0]
    /\ embeds' = <<>>
    /\ abortAt' = "none"
    /\ logged' = FALSE
    /\ last_run_time_str' = "Unknown"
    /\ webhook' = "unset"
    /\ UNCHANGED <<dataFile, lastRunFile, catalog, today>>
    /\ UNCHANGED callVars

Next ==
    \/ Tick
    \/ StartRun
    \/ LoadData
    \/ FetchStep
    \/ Save
    \/ BuildReport
    \/ Deliver
    \/ Exit

Spec == Init /\ [][Next]_vars

-----------------------------------------------------------------------------
(* get_price and calculate_performance called on their own *)

NoRun ==
    /\ dataFile = [kind |-> "absent", data |-> Empty]
    /\ lastRunFile = "absent"
    /\ catalog = <<>>
    /\ today = 1
    /\ webhook = "unset"
    /\ old_data = Empty
    /\ new_data = Empty
    /\ idx = 1
    /\ price = None
    /\ fetches = [pid \in Ids |-> 0]
    /\ embeds = <<>>
    /\ abortAt = "none"
    /\ logged = FALSE
    /\ last_run_time_str = "Unknown"

InitPrice ==
    /\ NoRun
    /\ pc = "call"
    /\ response \in Responses
    /\ ret_price = None
    /\ history = <<>>
    /\ target_date = 0
    /\ ret_perf = None

CallGetPrice ==
    /\ pc = "call"
    /\ ret_price' = get_price(response)
    /\ pc' = "returned"
    /\ UNCHANGED <<response, history, target_date, ret_perf>>
    /\ UNCHANGED runVars

NextPrice == CallGetPrice

SpecPrice == InitPrice /\ [][NextPrice]_vars

Observations == [date : 1..MaxDate, market : MarketPrices]

OnePerDate(h) == \A i, j \in 1..Len(h) : h[i].date = h[j].date => i = j

Histories == {h \in SeqsUpTo(Observations, MaxLen) : OnePerDate(h)}

InitPerf ==
    /\ NoRun
    /\ pc = "call"
    /\ response = HttpError
    /\ ret_price = None
    /\ history \in Histories
    /\ target_date \in 0..(MaxDate + 1)
    /\ ret_perf = None

CallPerformance ==
    /\ pc = "call"
    /\ ret_perf' = calculate_performance(history, target_date)
    /\ pc' = "returned"
    /\ UNCHANGED <<response, ret_price, history, target_date>>
    /\ UNCHANGED runVars

NextPerf == CallPerformance

SpecPerf == InitPerf /\ [][NextPerf]_vars

-----------------------------------------------------------------------------
(* Properties *)

DatesOf(h) == {h[i].date : i \in 1..Len(h)}

SetMax(S) == CHOOSE m \in S : \A x \in S : x <= m

MarketOn(h, d) == h[CHOOSE i \in 1..Len(h) : h[i].date = d].market

BaselineByDate(h, t) ==
    LET E == {d \in DatesOf(h) : d <= t}
    IN  IF E = {} THEN None ELSE Some(MarketOn(h, SetMax(E)))

LatestByDate(h) ==
    IF h = <<>> THEN None ELSE Some(MarketOn(h, SetMax(DatesOf(h))))

Ascending(h) == \A i, j \in 1..Len(h) : i < j => h[i].date < h[j].date

Stored(pid) ==
    /\ dataFile.kind = "json"
    /\ dataFile.data[pid].tag = "rec"

\* C1: an item record that is in the persisted store is never deleted: after
\* every step of every later run the store still holds the item and every
\* observation of its history, also when the item's fetch returns absent.
C1_NeverDeleted ==
    [][\A pid \in Ids :
          Stored(pid) =>
            /\ dataFile'.kind = "json"
            /\ dataFile'.data[pid].tag = "rec"
            /\ \A i \in 1..Len(dataFile.data[pid].history) :
                 \E j \in 1..Len(dataFile'.data[pid].history) :
                   dataFile'.data[pid].history[j] = dataFile.data[pid].history[i]]_vars

\* C2: recording an observation is idempotent per date: a second recording
\* for an item in the same run leaves its history as the first left it, no
\* history holds two observations of one date, and the record's price is the
\* price of the latest recording.
C2_IdempotentPerDate ==
    [][(pc = "fetch" /\ pc' \in {"fetch", "save"} /\ price' # None) =>
          /\ new_data'[Refs[idx]].price = Val(price')
          /\ OnePerDate(new_data'[Refs[idx]].history)
          /\ Has(new_data, Refs[idx]) =>
               new_data'[Refs[idx]].history = new_data[Refs[idx]].history]_vars

\* C3: an unparsable store never aborts the run: load yields the empty
\* mapping and the run goes on.
C3_CorruptStoreNonFatal ==
    /\ pc = "aborted" => abortAt # "load"
    /\ (dataFile.kind = "corrupt" /\ pc = "fetch") => old_data = Empty

\* C4: on load every legacy item (a bare number, integer or decimal) becomes
\* the record {price: that number, history: []}, and the rest of the run
\* handles it without aborting.
C4_LegacyUpgrade ==
    /\ (pc \in {"fetch", "save"} /\ idx = 1 /\ dataFile.kind = "json") =>
          \A pid \in Ids :
             dataFile.data[pid].tag \in {"int", "float"} =>
                old_data[pid] = [tag |-> "rec",
                                 price |-> dataFile.data[pid].price,
                                 history |-> <<>>]
    /\ pc = "aborted" => abortAt \notin {"history", "report"}

\* C5: delivery independence: when delivery is attempted and after it, with
\* the webhook URL unset or set and delivery succeeding or failing, the
\* persisted store is the store the run built, written before the attempt.
C5_DeliveryIndependence ==
    (pc \in {"deliver", "done"} \/ (pc = "aborted" /\ abortAt = "deliver")) =>
        /\ dataFile = json_dump(new_data)
        /\ lastRunFile = "written"

C5_Witness ==
    /\ pc = "aborted"
    /\ abortAt = "deliver"
    /\ webhook = "unset"
    /\ \E pid \in Ids : Len(new_data[pid].history) = 2

\* C6: within one run the pricing API is queried at most once per item id.
C6_FetchOncePerId == \A pid \in Ids : fetches[pid] <= 1

FirstNonNull(entries, type) ==
    IF \E i \in 1..Len(entries) :
          entries[i].printingType = type /\ entries[i].marketPrice # None
    THEN entries[CHOOSE i \in 1..Len(entries) :
            /\ entries[i].printingType = type
            /\ entries[i].marketPrice # None
            /\ \A j \in 1..(i - 1) :
                  ~(entries[j].printingType = type /\ entries[j].marketPrice # None)
         ].marketPrice
    ELSE None

\* C7: get_price returns the market price of the first Foil entry whose
\* market price is non-null, else that of the first such Normal entry, else
\* absent; a market price of 0 counts.
C7_Selection ==
    (pc = "returned" /\ response.status = "ok") =>
        ret_price = IF FirstNonNull(response.body, "Foil") # None
                    THEN FirstNonNull(response.body, "Foil")
                    ELSE FirstNonNull(response.body, "Normal")

\* C8 as stated: for a history in any stored order, calculate_performance
\* returns latest minus baseline, both taken by date, and absent when the
\* history is empty or the target date precedes every observation.
C8_AnyOrder ==
    pc = "returned" =>
        ret_perf = IF BaselineByDate(history, target_date) = None
                   THEN None
                   ELSE Some(Val(LatestByDate(history))
                             - Val(BaselineByDate(history, target_date)))

\* C8 as amended: for a history stored in ascending date order,
\* calculate_performance returns latest minus baseline rounded to 2 decimal
\* places, both taken by date; absent when the history is empty or the
\* target date precedes every observation; 0 for a single observation whose
\* date is the target.
C8_AscendingRounded ==
    (pc = "returned" /\ Ascending(history)) =>
        /\ ret_perf = IF BaselineByDate(history, target_date) = None
                      THEN None
                      ELSE Some(Round2(Val(LatestByDate(history))
                                - Val(BaselineByDate(history, target_date))))
        /\ (history = <<>> \/ \A d \in DatesOf(history) : target_date < d)
              => ret_perf = None
        /\ (Len(history) = 1 /\ history[1].date = target_date)
              => ret_perf = Some(0)

C8_Witness ==
    /\ pc = "returned"
    /\ Ascending(history)
    /\ Len(history) = 3
    /\ target_date = history[2].date
    /\ ret_perf = Some(0 - 3750)

\* C9: a delivery error never ends the run with an unhandled failure,
\* whether the webhook URL is unset, the call fails or the status is not a
\* success.
C9_DeliveryNonFatal == pc = "aborted" => abortAt # "deliver"

RECURSIVE CurrentTotal(_)
CurrentTotal(ids) ==
    IF ids = <<>> THEN 0
    ELSE (IF Has(new_data, Head(ids)) THEN new_data[Head(ids)].price ELSE 0)
         + CurrentTotal(Tail(ids))

RECURSIVE BaselineSum(_, _)
BaselineSum(ids, t) ==
    IF ids = <<>> THEN 0
    ELSE (IF BaselineByDate(new_data[Head(ids)].history, t) = None THEN 0
          ELSE Val(BaselineByDate(new_data[Head(ids)].history, t)))
         + BaselineSum(Tail(ids), t)

EarliestObservation(ids) ==
    LET D == UNION {DatesOf(new_data[ids[i]].history) : i \in 1..Len(ids)}
    IN  IF D = {} THEN today ELSE SetMin(D)

AggregatesAsClaimed ==
    \A i \in 1..Len(embeds) :
       LET ids == user_cards[i].ids
       IN  /\ embeds[i].total_wtd =
                CurrentTotal(ids) - BaselineSum(ids, start_of_week(today))
           /\ embeds[i].total_mtd =
                CurrentTotal(ids) - BaselineSum(ids, start_of_month(today))
           /\ embeds[i].total_ytd =
                CurrentTotal(ids) - BaselineSum(ids, start_of_year(today))
           /\ embeds[i].total_all =
                CurrentTotal(ids) - BaselineSum(ids, EarliestObservation(ids))

\* C10: per owner and period start (week, month, year, earliest observation)
\* the reported delta is the sum of the fetched current prices minus the sum
\* of the items' baselines at that date, an item with no baseline adding
\* zero, and computing the aggregates never aborts the run.
C10_Aggregates ==
    /\ pc = "aborted" => abortAt # "report"
    /\ pc \in {"deliver", "done"} => AggregatesAsClaimed

====
